---- MODULE Spec2Model ----
(***************************************************************************)
(* Model of the LinkedIn auto-poster (linkedin_auto_poster.py): one run of *)
(* main() is a sequence of steps (configuration check, feed scan, caption  *)
(* generation, variant selection, browser-driven publish, store write),    *)
(* re-invoked run after run. The environment (feed transport, generation   *)
(* backend, browser/platform, file system, process kill) is a              *)
(* nondeterministic choice at the step that consults it.                   *)
(***************************************************************************)
EXTENDS Integers, Sequences, FiniteSets, TLC

(* ---------------------------- bounds ----------------------------------- *)
NumUrls == 2
MaxFeedLen == 2
MaxRuns == 3
MaxVariants == 2
MaxLaunches == 3
TickSec == 100
MaxCands == 3
MaxTags == 2

(* ------------------------- program constants --------------------------- *)
TimeoutSec == 300

(* ------------------------- input domains ------------------------------- *)
URLs == 1..NumUrls
Titles == {"t1"}
StyleTags == {"personal_story", "question_interrupt"}
Scores == {80, 90}
\* which key the generated candidate object lacks ("none": complete)
MissingKeys == {"none", "why_it_works", "caption"}

FeedEntries == [link : URLs, title : Titles]
Feeds == UNION {[1..n -> FeedEntries] : n \in 0..MaxFeedLen}
Candidates == [type : StyleTags, engagement_score : Scores, missing : MissingKeys]
\* candidate lists of one response: its objects all have the same keys
VariantLists ==
    UNION {[1..n -> [type : StyleTags, engagement_score : Scores, missing : {m}]] :
             n \in 0..MaxVariants, m \in MissingKeys}
Configs == [rss : BOOLEAN, apikey : BOOLEAN, email : BOOLEAN,
            password : BOOLEAN, selenium : BOOLEAN]

\* What the generation backend answers: a transport/HTTP error, a 200 whose
\* body is not JSON, a text that is not JSON, a JSON object without the
\* "variants" key, or a JSON object with a variants list.
Responses ==
    {[kind |-> k, variants |-> <<>>] :
        k \in {"transport_error", "bad_body", "non_json", "no_variants"}}
    \cup {[kind |-> "json", variants |-> v] : v \in VariantLists}

NoPost == [link |-> 0, title |-> ""]
NoVariant == [type |-> "", engagement_score |-> 0, missing |-> "none"]

VARIABLES
    config,        \* module-level settings read from the environment
    feed,          \* entries the feed source serves, most recent first
    file,          \* posted_articles.json: [exists, data (token sequence)]
    pc,            \* position of the current run
    runs,          \* number of runs started so far
    blog_post,     \* main(): blog_post
    variants,      \* main(): variants
    best_variant,  \* main(): best_variant
    success,       \* value post_to_linkedin is about to return / returned
    posted,        \* save_posted_article(): posted
    pending,       \* tokens json.dump has still to write
    stage,         \* how far the publish driver got in this run
    session,       \* browser handle: "none", "held", "released"
    loginUrl,      \* what the login step observed in this run
    respKind,      \* what the generation backend answered in this run
    net,           \* network calls made in this run
    published,     \* every main-post publish action performed, in order
    outcome,       \* how the current run ended
    file0,         \* the store file as it was when the run started
    okPrefix,      \* number of leading runs that all ended in success
    crashed,       \* some run was killed before it returned
    parsed,        \* feed.entries as feedparser.parse returned it in this run
    prev,          \* what the previous run selected and whether it must be retried
    sched,         \* scheduler.py: position of the scheduler loop
    children,      \* scheduler.py: auto-poster subprocesses that are alive
    launched,      \* scheduler.py: calls of run_autoposter so far
    elapsed,       \* scheduler.py: seconds subprocess.run has waited
    rc,            \* scheduler.py: exit code of the subprocess, once it exited
    result,        \* scheduler.py: how the last run_autoposter call ended
    fn,            \* function applied on its own: which one
    arg,           \* function applied on its own: its input
    res            \* function applied on its own: its output

schedVars == <<sched, children, launched, elapsed, rc, result>>

pureVars == <<fn, arg, res>>

runVars == <<config, feed, file, pc, runs, blog_post, variants, best_variant,
             success, posted, pending, stage, session, loginUrl, respKind, net,
             published, outcome, file0, okPrefix, crashed, parsed, prev>>

vars == <<runVars, schedVars, pureVars>>

(* ----------------------- fingerprint and store ------------------------- *)
\* hashlib.md5(url).hexdigest(): a fixed function of the URL alone. The
\* model keeps that shape with a map that is injective on the modelled URLs.
get_article_hash(url) == (url * 5 + 3) % 16

OpenTok == [t |-> "open", key |-> 0, url |-> 0, title |-> "",
            variant_used |-> "", posted_at |-> 0]
CloseTok == [t |-> "close", key |-> 0, url |-> 0, title |-> "",
             variant_used |-> "", posted_at |-> 0]

\* json.dump(posted, f): "{", one member per key in insertion order, "}"
Dump(d) == <<OpenTok>> \o d \o <<CloseTok>>

WellFormed(data) ==
    /\ Len(data) >= 2
    /\ data[1].t = "open"
    /\ data[Len(data)].t = "close"
    /\ \A i \in 2..(Len(data) - 1) : data[i].t = "entry"

KeyIndex(d, k) ==
    IF \E i \in 1..Len(d) : d[i].key = k
    THEN CHOOSE i \in 1..Len(d) : d[i].key = k
    ELSE 0

\* variant of the update that starts from an empty dict
Upsert_fresh(d, e) == <<e>>

\* posted[article_hash] = {...}: overwrite in place or append
Upsert(d, e) ==
    IF KeyIndex(d, e.key) = 0
    THEN Append(d, e)
    ELSE [d EXCEPT ![KeyIndex(d, e.key)] = e]

RECURSIVE ParseMembers(_, _)
ParseMembers(data, d) ==
    IF data = <<>> THEN d
    ELSE ParseMembers(Tail(data), Upsert(d, Head(data)))

\* load_posted_articles(): raises when the file exists and is not JSON
LoadRaises(f) == f.exists /\ ~WellFormed(f.data)

load_posted_articles(f) ==
    IF ~f.exists THEN <<>>
    ELSE ParseMembers(SubSeq(f.data, 2, Len(f.data) - 1), <<>>)

is_already_posted(url, f) ==
    KeyIndex(load_posted_articles(f), get_article_hash(url)) # 0

\* variant of the record with title and variant tag swapped
EntryFor_swapped(post, info, now) ==
    [t |-> "entry", key |-> get_article_hash(post.link), url |-> post.link,
     title |-> info.variant_used, variant_used |-> info.title,
     posted_at |-> now]

\* save_posted_article(url, post_info): the value stored under the hash
EntryFor(post, info, now) ==
    [t |-> "entry", key |-> get_article_hash(post.link), url |-> post.link,
     title |-> info.title, variant_used |-> info.variant_used,
     posted_at |-> now]

(* ---------------------------- feed scan -------------------------------- *)
\* variant of the scan that keeps the last unposted entry, not the first
FirstUnposted_last(entries, f) ==
    IF \E i \in 1..Len(entries) : ~is_already_posted(entries[i].link, f)
    THEN LET i == CHOOSE j \in 1..Len(entries) :
                    /\ ~is_already_posted(entries[j].link, f)
                    /\ \A k \in (j + 1)..Len(entries) :
                          is_already_posted(entries[k].link, f)
         IN [found |-> TRUE, post |-> entries[i]]
    ELSE [found |-> FALSE, post |-> NoPost]

\* variant of the scan that takes an entry for posted only if the stored
\* title is the entry's title too
FirstUnposted_titled(entries, f) ==
    LET d == load_posted_articles(f)
        seen(e) == \E i \in 1..Len(d) :
                      /\ d[i].key = get_article_hash(e.link)
                      /\ d[i].title = e.title
    IN IF \E i \in 1..Len(entries) : ~seen(entries[i])
       THEN LET i == CHOOSE j \in 1..Len(entries) :
                       /\ ~seen(entries[j])
                       /\ \A k \in 1..(j - 1) : seen(entries[k])
            IN [found |-> TRUE, post |-> entries[i]]
       ELSE [found |-> FALSE, post |-> NoPost]

\* the loop of fetch_latest_blog_post: first entry not already posted
FirstUnposted(entries, f) ==
    IF \E i \in 1..Len(entries) : ~is_already_posted(entries[i].link, f)
    THEN LET i == CHOOSE j \in 1..Len(entries) :
                    /\ ~is_already_posted(entries[j].link, f)
                    /\ \A k \in 1..(j - 1) : is_already_posted(entries[k].link, f)
         IN [found |-> TRUE, post |-> entries[i]]
    ELSE [found |-> FALSE, post |-> NoPost]

fetch_latest_blog_post(entries, f) ==
    IF entries = <<>> THEN [found |-> FALSE, post |-> NoPost]
    ELSE IF LoadRaises(f) THEN [found |-> FALSE, post |-> NoPost]
    ELSE FirstUnposted(entries, f)

(* ---------------------------- generation ------------------------------- *)
\* variant of the generator that answers unparseable text with a stock
\* candidate instead of None
generate_linkedin_variants_recover(resp) ==
    CASE resp.kind \in {"transport_error", "no_variants"} ->
            [raises |-> FALSE, none |-> TRUE, list |-> <<>>]
      [] resp.kind = "bad_body" ->
            [raises |-> TRUE, none |-> TRUE, list |-> <<>>]
      [] resp.kind = "non_json" ->
            [raises |-> FALSE, none |-> FALSE,
             list |-> <<[type |-> "personal_story", engagement_score |-> 80,
                         missing |-> "none"]>>]
      [] OTHER ->
            [raises |-> FALSE, none |-> FALSE, list |-> resp.variants]

\* generate_linkedin_variants: [raises, none, list]
generate_linkedin_variants(resp) ==
    CASE resp.kind = "transport_error" ->
            [raises |-> FALSE, none |-> TRUE, list |-> <<>>]
      [] resp.kind = "bad_body" ->
            \* response.json() raises a JSONDecodeError; the handler reads
            \* generated_text, which is unbound: UnboundLocalError
            [raises |-> TRUE, none |-> TRUE, list |-> <<>>]
      [] resp.kind = "non_json" ->
            [raises |-> FALSE, none |-> TRUE, list |-> <<>>]
      [] resp.kind = "no_variants" ->
            [raises |-> FALSE, none |-> TRUE, list |-> <<>>]
      [] OTHER ->
            [raises |-> FALSE, none |-> FALSE, list |-> resp.variants]

\* main(): "if not variants"
VariantsFalsy(g) == g.none \/ g.list = <<>>

(* ---------------------------- selection -------------------------------- *)
\* variant of the sort in which a later equal score overtakes an earlier one
InsertDesc_unstable(s, x) ==
    LET k == Cardinality({i \in 1..Len(s) :
                            s[i].engagement_score > x.engagement_score})
    IN SubSeq(s, 1, k) \o <<x>> \o SubSeq(s, k + 1, Len(s))

\* sorted(..., reverse=True) is stable: equal scores keep their order
InsertDesc(s, x) ==
    LET k == Cardinality({i \in 1..Len(s) :
                            s[i].engagement_score >= x.engagement_score})
    IN SubSeq(s, 1, k) \o <<x>> \o SubSeq(s, k + 1, Len(s))

RECURSIVE SortedDesc(_)
SortedDesc(s) ==
    IF s = <<>> THEN <<>>
    ELSE InsertDesc(SortedDesc(SubSeq(s, 1, Len(s) - 1)), s[Len(s)])

\* select_best_variant: [raises, none, best]
select_best_variant(vs) ==
    IF vs = <<>> THEN [raises |-> FALSE, none |-> TRUE, best |-> NoVariant]
    ELSE LET best == SortedDesc(vs)[1]
         IN IF best.missing = "why_it_works"
            THEN [raises |-> TRUE, none |-> TRUE, best |-> NoVariant]
            ELSE [raises |-> FALSE, none |-> FALSE, best |-> best]

(* ------------------------------ Init ----------------------------------- *)
NoPrev == [post |-> NoPost, retry |-> FALSE]

\* a fresh deployment: no store file, no run yet
RunLocalsInit ==
    /\ file = [exists |-> FALSE, data |-> <<>>]
    /\ pc = "idle"
    /\ runs = 0
    /\ blog_post = NoPost
    /\ variants = <<>>
    /\ best_variant = NoVariant
    /\ success = FALSE
    /\ posted = <<>>
    /\ pending = <<>>
    /\ stage = "Init"
    /\ session = "none"
    /\ loginUrl = "none"
    /\ respKind = "none"
    /\ net = {}
    /\ published = <<>>
    /\ outcome = "none"
    /\ file0 = [exists |-> FALSE, data |-> <<>>]
    /\ okPrefix = 0
    /\ crashed = FALSE
    /\ parsed = <<>>
    /\ prev = NoPrev

\* scheduler.py before main() is entered
SchedVarsInit ==
    /\ sched = "loop"
    /\ children = {}
    /\ launched = 0
    /\ elapsed = 0
    /\ rc = -1
    /\ result = "none"

NoRes == [done |-> FALSE, val |-> 0]

PureVarsInit ==
    /\ fn = "none"
    /\ arg = 0
    /\ res = NoRes

Init ==
    /\ config \in Configs
    /\ feed \in Feeds
    /\ RunLocalsInit
    /\ SchedVarsInit
    /\ PureVarsInit

\* this run has clicked the Post button
PublishedThisRun == \E i \in 1..Len(published) : published[i].run = runs

\* the run that just ended had picked an item and returned without
\* publishing it
RetryDue ==
    /\ blog_post # NoPost
    /\ ~PublishedThisRun
    /\ outcome \in {"failed", "success"}

\* the run returns (or dies with a traceback) with run-level outcome o
Finish(o) ==
    /\ pc' = "done"
    /\ outcome' = o
    /\ okPrefix' = IF o = "success" /\ okPrefix = runs - 1 THEN runs ELSE okPrefix


(* --------------------------- scheduler --------------------------------- *)
\* the scheduler launches the next run once the previous one has ended
StartRun ==
    /\ pc \in {"idle", "done"}
    /\ runs < MaxRuns
    /\ runs' = runs + 1
    /\ pc' = "validate"
    /\ blog_post' = NoPost
    /\ variants' = <<>>
    /\ best_variant' = NoVariant
    /\ success' = FALSE
    /\ posted' = <<>>
    /\ pending' = <<>>
    /\ stage' = "Init"
    /\ session' = "none"
    /\ loginUrl' = "none"
    /\ respKind' = "none"
    /\ net' = {}
    /\ outcome' = "none"
    /\ file0' = file
    /\ parsed' = <<>>
    /\ prev' = [post |-> blog_post, retry |-> RetryDue]
    /\ UNCHANGED <<schedVars, pureVars>>
    /\ UNCHANGED <<config, feed, file, published, okPrefix, crashed>>

\* the process is killed (scheduler timeout, crash, power loss) mid-run
Kill ==
    /\ pc \notin {"idle", "done"}
    /\ pc' = "done"
    /\ outcome' = "killed"
    /\ crashed' = TRUE
    /\ UNCHANGED <<schedVars, pureVars, parsed, prev>>
    /\ UNCHANGED <<config, feed, file, runs, blog_post, variants, best_variant,
                   success, posted, pending, stage, session, loginUrl, respKind, net,
                   published, file0, okPrefix>>

(* ------------------------------ main() --------------------------------- *)
\* main(): "Validate configuration"
ConfigValid(c) == c.rss /\ c.apikey

ValidateConfig ==
    /\ pc = "validate"
    /\ IF ConfigValid(config)
       THEN /\ pc' = "fetch"
            /\ UNCHANGED <<outcome, okPrefix>>
       ELSE Finish("failed")
    /\ UNCHANGED <<schedVars, pureVars, parsed, prev>>
    /\ UNCHANGED <<config, feed, file, runs, blog_post, variants, best_variant,
                   success, posted, pending, stage, session, loginUrl, respKind, net,
                   published, file0, crashed>>

\* variant of the check that never takes the no-new-content exit
NoNewContent_never(r) == FALSE

\* main(): "if not blog_post"
NoNewContent(r) == ~r.found

\* Step 1: fetch_latest_blog_post(SQUARESPACE_RSS_URL)
FetchFeed ==
    /\ pc = "fetch"
    /\ \E transport \in {"ok", "unreachable"} :
         LET es == IF transport = "ok" THEN feed ELSE <<>>
             r == fetch_latest_blog_post(es, file)
         IN /\ net' = net \cup {"feed"}
            /\ parsed' = es
            /\ blog_post' = r.post
            /\ IF NoNewContent(r)
               THEN Finish("no_new_content")
               ELSE /\ pc' = "generate"
                    /\ UNCHANGED <<outcome, okPrefix>>
    /\ UNCHANGED <<schedVars, pureVars, prev>>
    /\ UNCHANGED <<config, feed, file, runs, variants, best_variant, success,
                   posted, pending, stage, session, loginUrl, respKind,
                   published, file0, crashed>>

\* Step 2: generate_linkedin_variants(blog_post)
Generate ==
    /\ pc = "generate"
    /\ \E resp \in Responses :
         LET g == generate_linkedin_variants(resp)
         IN /\ net' = net \cup {"generation"}
            /\ respKind' = IF resp.kind = "json" /\ resp.variants = <<>>
                           THEN "json_empty" ELSE resp.kind
            /\ variants' = g.list
            /\ IF g.raises THEN Finish("exception")
               ELSE IF VariantsFalsy(g) THEN Finish("failed")
               ELSE /\ pc' = "select"
                    /\ UNCHANGED <<outcome, okPrefix>>
    /\ UNCHANGED <<schedVars, pureVars, parsed, prev>>
    /\ UNCHANGED <<config, feed, file, runs, blog_post, best_variant, success,
                   posted, pending, stage, session, loginUrl, published,
                   file0, crashed>>

\* Step 3: select_best_variant(variants)
Select ==
    /\ pc = "select"
    /\ LET r == select_best_variant(variants)
       IN /\ best_variant' = r.best
          /\ variants' = <<>>    \* main() never reads variants again
          /\ IF r.raises THEN Finish("exception")
             ELSE IF r.none THEN Finish("failed")
             ELSE /\ pc' = "post"
                  /\ UNCHANGED <<outcome, okPrefix>>
    /\ UNCHANGED <<schedVars, pureVars, parsed, prev>>
    /\ UNCHANGED <<config, feed, file, runs, blog_post, success,
                   posted, pending, stage, session, loginUrl, respKind, net, published,
                   file0, crashed>>

(* ------------------------ post_to_linkedin ----------------------------- *)
\* Step 4: the call (its arguments read best_variant['caption']) and the
\* two guards at the top of post_to_linkedin
PostCall ==
    /\ pc = "post"
    /\ IF best_variant.missing = "caption"
       THEN /\ Finish("exception")
            /\ UNCHANGED success
       ELSE /\ success' = FALSE
            /\ pc' = IF config.selenium /\ config.email /\ config.password
                     THEN "driver_init" ELSE "post_result"
            /\ UNCHANGED <<outcome, okPrefix>>
    /\ UNCHANGED <<schedVars, pureVars, parsed, prev>>
    /\ UNCHANGED <<config, feed, file, runs, blog_post, variants, best_variant,
                   posted, pending, stage, session, loginUrl, respKind, net, published,
                   file0, crashed>>

\* driver = webdriver.Chrome(options=chrome_options)
DriverInit ==
    /\ pc = "driver_init"
    /\ \E o \in {"ok", "raise"} :
         IF o = "ok"
         THEN /\ session' = "held"
              /\ net' = net \cup {"browser"}
              /\ pc' = "driver_config"
              /\ UNCHANGED stage
         ELSE /\ stage' = "Failed_init"
              /\ pc' = "post_result"
              /\ UNCHANGED <<session, net>>
    /\ UNCHANGED <<schedVars, pureVars, parsed, prev>>
    /\ UNCHANGED <<config, feed, file, runs, blog_post, variants, best_variant,
                   success, posted, pending, loginUrl, respKind, published, outcome,
                   file0, okPrefix, crashed>>

\* driver.implicitly_wait(10): after the acquisition, before the inner try
DriverConfigure ==
    /\ pc = "driver_config"
    /\ \E o \in {"ok", "raise"} :
         IF o = "ok"
         THEN /\ pc' = "login"
              /\ UNCHANGED stage
         ELSE /\ stage' = "Failed_init"
              /\ pc' = "post_result"
    /\ UNCHANGED <<schedVars, pureVars, parsed, prev>>
    /\ UNCHANGED <<config, feed, file, runs, blog_post, variants, best_variant,
                   success, posted, pending, session, loginUrl, respKind, net, published,
                   outcome, file0, okPrefix, crashed>>

\* "if 'feed' not in driver.current_url and 'checkpoint' not in ..."
LoginAccepted(url) == url \in {"feed", "checkpoint"}

\* 1. Login: the post-login URL contains 'feed', contains 'checkpoint',
\* contains neither ("other"), or a step of the login raised ("error")
Login ==
    /\ pc = "login"
    /\ \E url \in {"feed", "checkpoint", "other", "error"} :
         /\ loginUrl' = url
         /\ IF url # "error" /\ LoginAccepted(url)
            THEN /\ stage' = "Authenticated"
                 /\ pc' = "compose"
            ELSE /\ stage' = "Failed_auth"
                 /\ pc' = "quit"
    /\ UNCHANGED <<schedVars, pureVars, parsed, prev>>
    /\ UNCHANGED <<config, feed, file, runs, blog_post, variants, best_variant,
                   success, posted, pending, session, respKind, net, published,
                   outcome, file0, okPrefix, crashed>>

\* 2. Navigate to post creation, click "Start a post"
OpenComposer ==
    /\ pc = "compose"
    /\ \E o \in {"ok", "timeout"} :
         IF o = "ok"
         THEN /\ stage' = "ComposerOpen"
              /\ pc' = "write"
         ELSE /\ stage' = "Failed_compose_open"
              /\ pc' = "quit"
    /\ UNCHANGED <<schedVars, pureVars, parsed, prev>>
    /\ UNCHANGED <<config, feed, file, runs, blog_post, variants, best_variant,
                   success, posted, pending, session, loginUrl, respKind, net, published,
                   outcome, file0, okPrefix, crashed>>

\* 3. Write the post into the composer
WriteCaption ==
    /\ pc = "write"
    /\ \E o \in {"ok", "timeout"} :
         IF o = "ok"
         THEN /\ pc' = "publish"
              /\ UNCHANGED stage
         ELSE /\ stage' = "Failed_publish"
              /\ pc' = "quit"
    /\ UNCHANGED <<schedVars, pureVars, parsed, prev>>
    /\ UNCHANGED <<config, feed, file, runs, blog_post, variants, best_variant,
                   success, posted, pending, session, loginUrl, respKind, net, published,
                   outcome, file0, okPrefix, crashed>>

\* 4. Post it: find the Post button and click it
Publish ==
    /\ pc = "publish"
    /\ \E o \in {"ok", "not_found"} :
         IF o = "ok"
         THEN /\ published' = Append(published,
                                     [run |-> runs, link |-> blog_post.link])
              /\ stage' = "MainPostPublished"
              /\ pc' = "comment"
         ELSE /\ stage' = "Failed_publish"
              /\ pc' = "quit"
              /\ UNCHANGED published
    /\ UNCHANGED <<schedVars, pureVars, parsed, prev>>
    /\ UNCHANGED <<config, feed, file, runs, blog_post, variants, best_variant,
                   success, posted, pending, session, loginUrl, respKind, net, outcome,
                   file0, okPrefix, crashed>>

\* value post_to_linkedin returns once the comment step ended with o
CommentResult(o) == o = "ok"

\* 5. Add comment with link
Comment ==
    /\ pc = "comment"
    /\ \E o \in {"ok", "box_not_found", "button_not_found"} :
         /\ stage' = IF o = "ok" THEN "CommentPosted" ELSE "Failed_comment"
         /\ success' = CommentResult(o)
         /\ pc' = "quit"
    /\ UNCHANGED <<schedVars, pureVars, parsed, prev>>
    /\ UNCHANGED <<config, feed, file, runs, blog_post, variants, best_variant,
                   posted, pending, session, loginUrl, respKind, net, published, outcome,
                   file0, okPrefix, crashed>>

\* finally: driver.quit(); an exception it raises replaces the return value
Quit ==
    /\ pc = "quit"
    /\ \E o \in {"ok", "raise"} :
         /\ session' = "released"
         /\ success' = (success /\ o = "ok")
         /\ pc' = "post_result"
    /\ UNCHANGED <<schedVars, pureVars, parsed, prev>>
    /\ UNCHANGED <<config, feed, file, runs, blog_post, variants, best_variant,
                   posted, pending, stage, loginUrl, respKind, net, published, outcome,
                   file0, okPrefix, crashed>>

(* --------------------- main(): after the publish ----------------------- *)
\* variant of the guard that commits whatever the publish returned
ShouldCommit_always(ok) == TRUE

\* main(): "if success:" guards Step 5
ShouldCommit(ok) == ok

PostResult ==
    /\ pc = "post_result"
    /\ IF ShouldCommit(success)
       THEN /\ pc' = "save"
            /\ UNCHANGED <<outcome, okPrefix>>
       ELSE Finish("failed")
    /\ UNCHANGED <<schedVars, pureVars, parsed, prev>>
    /\ UNCHANGED <<config, feed, file, runs, blog_post, variants, best_variant,
                   success, posted, pending, stage, session, loginUrl, respKind, net,
                   published, file0, crashed>>

(* ----------------------- save_posted_article --------------------------- *)
\* posted = load_posted_articles(); posted[article_hash] = {...}
SaveLoad ==
    /\ pc = "save"
    /\ IF LoadRaises(file)
       THEN /\ Finish("exception")
            /\ UNCHANGED posted
       ELSE /\ posted' = Upsert(load_posted_articles(file),
                                EntryFor(blog_post,
                                         [title |-> blog_post.title,
                                          variant_used |-> best_variant.type],
                                         runs))
            /\ pc' = "save_open"
            /\ UNCHANGED <<outcome, okPrefix>>
    /\ UNCHANGED <<schedVars, pureVars, parsed, prev>>
    /\ UNCHANGED <<config, feed, file, runs, blog_post, variants, best_variant,
                   success, pending, stage, session, loginUrl, respKind, net, published,
                   file0, crashed>>

\* open(POSTED_CACHE_FILE, 'w'): truncates the file, or raises OSError
SaveOpen ==
    /\ pc = "save_open"
    /\ \E io \in {"ok", "oserror"} :
         IF io = "ok"
         THEN /\ file' = [exists |-> TRUE, data |-> <<>>]
              /\ pending' = Dump(posted)
              /\ pc' = "save_write"
              /\ UNCHANGED <<outcome, okPrefix>>
         ELSE /\ Finish("exception")
              /\ UNCHANGED <<file, pending>>
    /\ UNCHANGED <<schedVars, pureVars, parsed, prev>>
    /\ UNCHANGED <<config, feed, runs, blog_post, variants, best_variant,
                   success, posted, stage, session, loginUrl, respKind, net, published,
                   file0, crashed>>

\* json.dump writes the document piece by piece; after the last piece the
\* file is closed and main() logs the success
SaveWrite ==
    /\ pc = "save_write"
    /\ pending # <<>>
    /\ file' = [file EXCEPT !.data = Append(@, Head(pending))]
    /\ pending' = Tail(pending)
    /\ IF Tail(pending) = <<>>
       THEN Finish("success")
       ELSE UNCHANGED <<pc, outcome, okPrefix>>
    /\ UNCHANGED <<schedVars, pureVars, parsed, prev>>
    /\ UNCHANGED <<config, feed, runs, blog_post, variants, best_variant,
                   success, posted, stage, session, loginUrl, respKind, net, published,
                   file0, crashed>>

(* --------------------------- specification ----------------------------- *)
Next ==
    \/ StartRun
    \/ Kill
    \/ ValidateConfig
    \/ FetchFeed
    \/ Generate
    \/ Select
    \/ PostCall
    \/ DriverInit
    \/ DriverConfigure
    \/ Login
    \/ OpenComposer
    \/ WriteCaption
    \/ Publish
    \/ Comment
    \/ Quit
    \/ PostResult
    \/ SaveLoad
    \/ SaveOpen
    \/ SaveWrite

Spec == Init /\ [][Next]_vars


(* ---------------------- scheduler.py on its own ------------------------ *)
\* The scheduler sees of a run only its subprocess: alive, exited with a
\* code, or still alive when the timeout expires.
ExitCodes == {0, 1}
AllSet == [rss |-> TRUE, apikey |-> TRUE, email |-> TRUE, password |-> TRUE,
           selenium |-> TRUE]

\* variant of the timeout that raises without killing the subprocess
AfterTimeout_orphan(cs, c) == cs

\* subprocess.run(..., timeout=300): on expiry the child is killed and
\* waited for before TimeoutExpired is raised
AfterTimeout(cs, c) == cs \ {c}

\* variant of run_autoposter that lets TimeoutExpired out of the loop
AfterRun_uncaught(r) == IF r = "timeout" THEN "crashed" ELSE "sleeping"

\* run_autoposter catches everything; main() logs and goes to sleep
AfterRun(r) == "sleeping"

\* run_autoposter(): subprocess.run starts the child, or raises (OSError)
SchedLaunch ==
    /\ sched = "loop"
    /\ launched < MaxLaunches
    /\ launched' = launched + 1
    /\ elapsed' = 0
    /\ rc' = -1
    /\ \E o \in {"ok", "oserror"} :
         IF o = "ok"
         THEN /\ children' = children \cup {launched + 1}
              /\ sched' = "waiting"
              /\ UNCHANGED result
         ELSE /\ result' = "launch_error"
              /\ sched' = AfterRun("launch_error")
              /\ UNCHANGED children
    /\ UNCHANGED <<runVars, pureVars>>

\* the auto-poster process ends by itself with an exit code
ChildExit ==
    /\ \E c \in children, code \in ExitCodes :
         /\ children' = children \ {c}
         /\ rc' = IF c = launched /\ sched = "waiting" THEN code ELSE rc
    /\ UNCHANGED <<sched, launched, elapsed, result>>
    /\ UNCHANGED <<runVars, pureVars>>

\* time passes while subprocess.run waits for the child
SchedTick ==
    /\ sched = "waiting"
    /\ launched \in children
    /\ elapsed < TimeoutSec
    /\ elapsed' = elapsed + TickSec
    /\ UNCHANGED <<sched, children, launched, rc, result>>
    /\ UNCHANGED <<runVars, pureVars>>

\* subprocess.run returns: output printed, return code logged
SchedReap ==
    /\ sched = "waiting"
    /\ launched \notin children
    /\ LET r == IF rc = 0 THEN "exit_zero" ELSE "exit_nonzero"
       IN /\ result' = r
          /\ sched' = AfterRun(r)
    /\ UNCHANGED <<children, launched, elapsed, rc>>
    /\ UNCHANGED <<runVars, pureVars>>

\* the 5 minute timeout expires with the child still alive
SchedTimeout ==
    /\ sched = "waiting"
    /\ launched \in children
    /\ elapsed >= TimeoutSec
    /\ children' = AfterTimeout(children, launched)
    /\ result' = "timeout"
    /\ sched' = AfterRun("timeout")
    /\ UNCHANGED <<launched, elapsed, rc>>
    /\ UNCHANGED <<runVars, pureVars>>

\* time.sleep(3600) returns
SchedWake ==
    /\ sched = "sleeping"
    /\ sched' = "loop"
    /\ UNCHANGED <<children, launched, elapsed, rc, result>>
    /\ UNCHANGED <<runVars, pureVars>>

SchedInit ==
    /\ config = AllSet
    /\ feed = <<>>
    /\ RunLocalsInit
    /\ SchedVarsInit
    /\ PureVarsInit

SchedNext ==
    \/ SchedLaunch
    \/ ChildExit
    \/ SchedTick
    \/ SchedReap
    \/ SchedTimeout
    \/ SchedWake

SchedSpec == SchedInit /\ [][SchedNext]_vars

\* The scheduler process keeps running and its clock keeps advancing; the
\* child is under no obligation to ever exit.
SchedLive ==
    /\ SchedInit /\ [][SchedNext]_vars
    /\ WF_vars(SchedLaunch)
    /\ WF_vars(SchedTick)
    /\ WF_vars(SchedReap)
    /\ WF_vars(SchedTimeout)
    /\ WF_vars(SchedWake)

(* --------------------- functions on their own -------------------------- *)
\* Text is a sequence of pieces; "\n" is the newline character.
NL == "\n"

RECURSIVE JoinSpace(_)
\* ' '.join(parts)
JoinSpace(parts) ==
    IF parts = <<>> THEN <<>>
    ELSE IF Len(parts) = 1 THEN parts[1]
    ELSE parts[1] \o <<" ">> \o JoinSpace(Tail(parts))

\* variant with the hashtags on the line right under the caption
FullCaption_oneNewline(caption, hashtags) ==
    caption \o <<NL>>
            \o JoinSpace([i \in 1..Len(hashtags) |-> <<"#", hashtags[i]>>])

\* full_caption = f"{caption}\n\n{' '.join(['#' + tag for tag in hashtags])}"
FullCaption(caption, hashtags) ==
    caption \o <<NL, NL>>
            \o JoinSpace([i \in 1..Len(hashtags) |-> <<"#", hashtags[i]>>])

PureTags == {"personal_story", "question_interrupt", "contrarian_hook"}
PureScores == {80, 85, 88, 90}
PureCandidates ==
    [type : PureTags, engagement_score : PureScores, missing : {"none"}]
PureVariantLists == UNION {[1..n -> PureCandidates] : n \in 0..MaxCands}

Captions == {<<>>, <<"Hello">>, <<"Hi", " ", "all">>}
Tags == {"AI", "Leadership"}
TagLists == UNION {[1..n -> Tags] : n \in 0..MaxTags}

PureTitles == {"t1", "t2"}
PureEntries == [link : URLs, title : PureTitles]
PureFeeds == UNION {[1..n -> PureEntries] : n \in 0..MaxFeedLen}

\* the store file after a run recorded post e with variant tag v
StoreWith(e, v) ==
    [exists |-> TRUE,
     data |-> Dump(Upsert(<<>>, EntryFor(e, [title |-> e.title,
                                             variant_used |-> v], 1)))]

PureInit ==
    /\ config = AllSet
    /\ feed = <<>>
    /\ RunLocalsInit
    /\ SchedVarsInit
    /\ res = NoRes
    /\ \/ /\ fn = "select"
          /\ arg \in PureVariantLists
       \/ /\ fn = "compose"
          /\ arg \in [caption : Captions, hashtags : TagLists]
       \/ /\ fn = "scan"
          /\ arg \in [recorded : PureEntries, later : PureFeeds]

\* select_best_variant(variants)
ApplySelect ==
    /\ fn = "select"
    /\ ~res.done
    /\ res' = [done |-> TRUE, val |-> select_best_variant(arg)]
    /\ UNCHANGED <<fn, arg, runVars, schedVars>>

\* post_to_linkedin: the text sent to the composer
ApplyCompose ==
    /\ fn = "compose"
    /\ ~res.done
    /\ res' = [done |-> TRUE, val |-> FullCaption(arg.caption, arg.hashtags)]
    /\ UNCHANGED <<fn, arg, runVars, schedVars>>

\* fetch_latest_blog_post on a later feed, the store holding one record
ApplyScan ==
    /\ fn = "scan"
    /\ ~res.done
    /\ res' = [done |-> TRUE,
               val |-> fetch_latest_blog_post(
                          arg.later, StoreWith(arg.recorded, "personal_story"))]
    /\ UNCHANGED <<fn, arg, runVars, schedVars>>

PureNext ==
    \/ ApplySelect
    \/ ApplyCompose
    \/ ApplyScan

PureSpec == PureInit /\ [][PureNext]_vars

(* ------------------------------ claims --------------------------------- *)
LinksDistinct(es) ==
    \A i, j \in 1..Len(es) : i # j => es[i].link # es[j].link

\* C1: the store file differs from what it was at the start of the run, or
\* save_posted_article is executing, only if the main-post publish action
\* was performed earlier in this same run; a run that has not published
\* (whatever step it failed at) leaves the store exactly as it found it.
C1_CommitOnlyAfterPublish ==
    /\ (file # file0 => PublishedThisRun)
    /\ (pc \in {"save", "save_open", "save_write"} => PublishedThisRun)
    /\ (stage \in {"Failed_init", "Failed_auth", "Failed_compose_open",
                   "Failed_publish"} => file = file0)

C1_Witness ==
    /\ pc = "done" /\ outcome = "success"
    /\ file # file0 /\ PublishedThisRun

\* C2: a run that published the main post and failed only in the comment
\* step ends as a success with the item's record in the store.
C2_CommentFailureStillCommits ==
    (pc = "done" /\ outcome # "killed" /\ stage = "Failed_comment")
        => (outcome = "success" /\ is_already_posted(blog_post.link, file))

\* C3: with the feed unchanged and no run killed, no item's main post is
\* published twice: a later run never publishes a link that an earlier run
\* already published.
C3_PublishAtMostOnce ==
    ~crashed =>
        \A i, j \in 1..Len(published) :
            i < j => published[i].link # published[j].link

C5_AuthFailureFailsAtAuth ==
    loginUrl \in {"error", "other", "checkpoint"}
        => (stage = "Failed_auth" /\ file = file0)

\* C6: if any of the four required settings is absent, the run makes no
\* network call at all.
C6_MissingSettingNoNetwork ==
    (~config.rss \/ ~config.apikey \/ ~config.email \/ ~config.password)
        => net = {}

\* C7: after a run was killed, the store file still loads, and what it
\* loads is the store as it was before the run or that store plus the
\* complete new entry.
C7_RecordCrashAtomic ==
    (pc = "done" /\ outcome = "killed" /\ ~LoadRaises(file0))
        => /\ ~LoadRaises(file)
           /\ \/ load_posted_articles(file) = load_posted_articles(file0)
              \/ load_posted_articles(file) = posted

\* C8: no run ends with an exception escaping main().
C8_NoExceptionEscapes == outcome # "exception"

\* C9: when the generated text is not JSON, has no variants list or has an
\* empty candidate list, the run ends at once as failed: no candidate is
\* selected, the publish driver is never entered and the store is unchanged.
C9_MalformedGenerationFails ==
    respKind \in {"non_json", "no_variants", "json_empty"} =>
        /\ pc = "done" /\ outcome = "failed"
        /\ best_variant = NoVariant
        /\ stage = "Init" /\ session = "none" /\ "browser" \notin net
        /\ ~PublishedThisRun
        /\ file = file0

C9_Witness ==
    /\ respKind = "non_json" /\ pc = "done" /\ outcome = "failed"
    /\ blog_post # NoPost

\* C10: when post_to_linkedin has returned (and the run was not killed),
\* the browser session is not held any more.
C10_SessionReleased ==
    (pc \in {"post_result", "save", "save_open", "save_write"}
       \/ (pc = "done" /\ outcome # "killed"))
        => session # "held"


\* C11: at most one auto-poster subprocess is alive at any time, and none is
\* alive whenever the scheduler is not inside subprocess.run (so a run is
\* started only after the previous subprocess is gone, timeout included).
C11_RunsNeverOverlap ==
    /\ Cardinality(children) <= 1
    /\ (sched \in {"loop", "sleeping"} => children = {})

C11_Witness ==
    /\ result = "timeout"
    /\ launched >= 2
    /\ children = {launched}

\* C19: however a call of run_autoposter ends (exit code 0, another exit
\* code, timeout, error launching), and even if the child never exits, the
\* scheduler goes on and starts the next run.
C19_NextRunAlwaysStarts ==
    \A k \in 1..(MaxLaunches - 1) :
        (launched = k /\ sched \in {"waiting", "sleeping"})
            ~> (launched = k + 1)

C19_Witness ==
    /\ launched = MaxLaunches
    /\ sched = "waiting"
    /\ result = "exit_nonzero"


StoredKeys(f) ==
    {load_posted_articles(f)[i].key : i \in 1..Len(load_posted_articles(f))}

Recorded(url, f) == ~LoadRaises(f) /\ is_already_posted(url, f)

\* C12: once the scan has run, the item it returned is the first entry of
\* the parsed feed whose fingerprint is not recorded in the store, and it
\* returned nothing exactly when there is no such entry.
C12_ScanReturnsFirstUnrecorded ==
    "feed" \in net =>
        LET un == {i \in 1..Len(parsed) : ~Recorded(parsed[i].link, file0)}
        IN IF un = {}
           THEN blog_post = NoPost
           ELSE blog_post = parsed[CHOOSE i \in un : \A j \in un : i <= j]

\* C13: when the scan yields no item (feed unreachable, empty, or every
\* entry recorded) the run is over as no-new-content: no generation request,
\* no browser session, no publish, store unchanged.
C13_NoItemIsNoOp ==
    ("feed" \in net /\ blog_post = NoPost) =>
        /\ pc = "done" /\ outcome = "no_new_content"
        /\ "generation" \notin net /\ "browser" \notin net
        /\ respKind = "none" /\ stage = "Init" /\ session = "none"
        /\ ~PublishedThisRun
        /\ file = file0

C13_Witness ==
    /\ pc = "done" /\ outcome = "no_new_content"
    /\ Len(parsed) >= 1
    /\ \A i \in 1..Len(parsed) : Recorded(parsed[i].link, file)

\* C17: if the previous run had picked an item and returned without
\* publishing it, a run that reads the unchanged feed picks that same item;
\* a run publishes only after its own generation request and its own login,
\* and what it publishes is the first unrecorded entry of the feed.
C17_FailedItemRetriedFirst ==
    /\ (prev.retry /\ "feed" \in net /\ parsed = feed)
          => blog_post = prev.post
    /\ PublishedThisRun =>
          /\ "generation" \in net
          /\ loginUrl \in {"feed", "checkpoint"}
          /\ blog_post = FirstUnposted(feed, file0).post

C17_Witness ==
    /\ prev.retry
    /\ Len(feed) = 2 /\ LinksDistinct(feed)
    /\ pc = "comment" /\ PublishedThisRun
    /\ blog_post = prev.post

\* C18: a run that completed its record leaves every store entry under
\* another key where and as it was and has the item's key in the store; and
\* as long as no run was killed, the store is readable between runs and
\* holds every key it held when the run began.
C18_RecordTouchesOnlyItsKey ==
    /\ (pc = "done" /\ outcome = "success") =>
          LET old == load_posted_articles(file0)
              new == load_posted_articles(file)
              k == get_article_hash(blog_post.link)
          IN /\ ~LoadRaises(file)
             /\ \A i \in 1..Len(old) :
                   old[i].key # k => (i <= Len(new) /\ new[i] = old[i])
             /\ StoredKeys(file) = StoredKeys(file0) \cup {k}
    /\ (~crashed /\ pc \in {"idle", "done"}) =>
          /\ ~LoadRaises(file)
          /\ StoredKeys(file0) \subseteq StoredKeys(file)

C18_Witness ==
    /\ pc = "done" /\ outcome = "success"
    /\ Len(load_posted_articles(file0)) >= 1
    /\ Len(load_posted_articles(file)) = Len(load_posted_articles(file0)) + 1

\* C20: a run clicks Post at most once and opens the store for writing only
\* while it has not yet written to it; the record a successful run leaves
\* carries the fingerprint, URL and title of the item it published and the
\* type of the variant it selected.
C20_OnePublishOneRecordSameItem ==
    /\ [](/\ Cardinality({i \in 1..Len(published) : published[i].run = runs}) <= 1
          /\ (pc = "done" /\ outcome = "success") =>
                LET d == load_posted_articles(file)
                    e == d[KeyIndex(d, get_article_hash(blog_post.link))]
                IN /\ KeyIndex(d, get_article_hash(blog_post.link)) # 0
                   /\ e.url = blog_post.link
                   /\ e.title = blog_post.title
                   /\ e.variant_used = best_variant.type
                   /\ published[Len(published)]
                        = [run |-> runs, link |-> blog_post.link])
    /\ [][(pc # "save_write" /\ pc' = "save_write") => file = file0]_vars
    /\ [][(pc = "save_write" /\ pc' # "save_write") => pc' = "done"]_vars

C20_Witness ==
    /\ pc = "done" /\ outcome = "success"
    /\ best_variant.type = "question_interrupt"
    /\ Len(published) = 2


Cand(t, n) == [type |-> t, engagement_score |-> n, missing |-> "none"]

\* C14: for a non-empty candidate sequence select_best_variant returns a
\* candidate of maximal score that has no equal-scored candidate before it
\* ([85, 90, 88] gives the second, [90, 90, 80] the first); it returns none
\* exactly for the empty sequence.
C14_SelectsEarliestMaximum ==
    (fn = "select" /\ res.done) =>
        /\ ~res.val.raises
        /\ res.val.none <=> (arg = <<>>)
        /\ arg # <<>> =>
              \E i \in 1..Len(arg) :
                 /\ res.val.best = arg[i]
                 /\ \A j \in 1..Len(arg) :
                       arg[j].engagement_score <= arg[i].engagement_score
                 /\ \A j \in 1..(i - 1) :
                       arg[j].engagement_score < arg[i].engagement_score
        /\ arg = <<Cand("personal_story", 85), Cand("question_interrupt", 90),
                   Cand("contrarian_hook", 88)>>
              => res.val.best = Cand("question_interrupt", 90)
        /\ arg = <<Cand("personal_story", 90), Cand("question_interrupt", 90),
                   Cand("contrarian_hook", 80)>>
              => res.val.best = Cand("personal_story", 90)

C14_Witness ==
    /\ fn = "select" /\ res.done
    /\ arg = <<Cand("personal_story", 90), Cand("question_interrupt", 90),
               Cand("contrarian_hook", 80)>>
    /\ res.val.best.type = "personal_story"

\* C15: with a record stored for a URL, a later scan never returns an entry
\* with that URL, whatever title the entry now carries: it returns the
\* first entry with another URL, or nothing.
C15_RecordedUrlSkippedWhateverTitle ==
    (fn = "scan" /\ res.done) =>
        LET other == {i \in 1..Len(arg.later) :
                         arg.later[i].link # arg.recorded.link}
        IN IF other = {}
           THEN ~res.val.found
           ELSE /\ res.val.found
                /\ res.val.post
                     = arg.later[CHOOSE i \in other : \A j \in other : i <= j]

C15_Witness ==
    /\ fn = "scan" /\ res.done
    /\ Len(arg.later) = 1
    /\ arg.later[1].link = arg.recorded.link
    /\ arg.later[1].title # arg.recorded.title
    /\ ~res.val.found

\* C16: the text for the composer is the caption, two newlines, then for
\* each hashtag in order "#" and the tag, consecutive tags separated by one
\* space; "Hello" with ["AI", "Leadership"] gives "Hello\n\n#AI #Leadership".
C16_CaptionBlankLineHashtags ==
    (fn = "compose" /\ res.done) =>
        LET c == arg.caption
            h == arg.hashtags
            out == res.val
            base == Len(c) + 2
        IN /\ Len(out) = base + (IF h = <<>> THEN 0 ELSE 3 * Len(h) - 1)
           /\ \A i \in 1..Len(c) : out[i] = c[i]
           /\ out[Len(c) + 1] = NL /\ out[Len(c) + 2] = NL
           /\ \A k \in 1..Len(h) :
                 /\ out[base + 3 * (k - 1) + 1] = "#"
                 /\ out[base + 3 * (k - 1) + 2] = h[k]
                 /\ k < Len(h) => out[base + 3 * k] = " "
           /\ (c = <<"Hello">> /\ h = <<"AI", "Leadership">>)
                 => out = <<"Hello", NL, NL, "#", "AI", " ", "#", "Leadership">>

C16_Witness ==
    /\ fn = "compose" /\ res.done
    /\ arg.caption = <<"Hello">> /\ arg.hashtags = <<"AI", "Leadership">>
    /\ res.val = <<"Hello", NL, NL, "#", "AI", " ", "#", "Leadership">>

====
